---- MODULE Spec2Model ----
(***************************************************************************)
(* Model of the self-update client of 132nd-etcher/utils                   *)
(* (src/utils/updater.py): Version, GithubRelease and the Updater          *)
(* pipeline  version check -> process candidates -> download -> install,   *)
(* run on the Updater's single-worker thread pool.                         *)
(***************************************************************************)
EXTENDS Integers, Sequences, FiniteSets, TLC

(***************************************************************************)
(* Bounds of the model.                                                    *)
(***************************************************************************)
\* longest release list the release source returns in one check
MaxReleases == 2
\* number of public calls (version_check, get_latest_remote,
\* install_latest_remote) made on one Updater
MaxCalls == 2
\* number of stages called one by one on one Updater
MaxSteps == 4
\* highest patch number of a version string
MaxPatch == 3
\* number of Version objects constructed from raw strings and compared
MaxVersions == 3
\* number of entries of the catalog of releases
MaxEntries == 2
\* number of adapters given to the constructor of Progress
MaxAdapters == 2
\* the values and start indexes given to a Progress are 0..MaxValue
MaxValue == 3

\* Python's None as a branch name
None == "None"
\* an optional object (latest_remote, latest_candidate): <<>> is Python's
\* None, <<x>> is the object x
Nothing == <<>>
Some(x) == <<x>>

(***************************************************************************)
(* Version strings.  A version string MAJOR.MINOR.PATCH[-PRERELEASE]       *)
(* [+BUILD] is kept as its parts: core = <<major, minor, patch>>, pre =    *)
(* the dot-separated identifiers of the prerelease (<<>> when there is     *)
(* none), build = the build metadata ("" when there is none).  An          *)
(* identifier is numeric (num = TRUE, value n) or alphanumeric (text s).   *)
(***************************************************************************)
Num(n) == [num |-> TRUE, n |-> n, s |-> ""]
Str(s) == [num |-> FALSE, n |-> 0, s |-> s]

VStr(patch, pre, build) == [core |-> <<0, 0, patch>>, pre |-> pre, build |-> build]

\* the alphanumeric identifiers of the model, in Python's string order
Idents == <<"alpha", "beta", "dev", "develop", "rc", "test", "x", "y">>

StrRank(s) == CHOOSE i \in 1..Len(Idents) : Idents[i] = s

\* Python 3 has no cmp; semver defines it as (a > b) - (a < b)
cmp(a, b) == IF a < b THEN -1 ELSE IF a > b THEN 1 ELSE 0

\* semver._nat_cmp.cmp_prerelease_tag: numeric identifiers sort below
\* alphanumeric ones, two of a kind compare by value
cmp_prerelease_tag(a, b) ==
    IF a.num /\ b.num THEN cmp(a.n, b.n)
    ELSE IF a.num THEN -1
    ELSE IF b.num THEN 1
    ELSE cmp(StrRank(a.s), StrRank(b.s))

NumDigits(n) == IF n < 10 THEN 1 ELSE IF n < 100 THEN 2 ELSE 3

RECURSIVE PreStrLen(_)
\* len() of the prerelease string: the identifiers joined by "."
PreStrLen(pre) ==
    IF pre = <<>> THEN 0
    ELSE (IF Head(pre).num THEN NumDigits(Head(pre).n) ELSE Len(Head(pre).s))
         + (IF Len(pre) > 1 THEN 1 ELSE 0) + PreStrLen(Tail(pre))

RECURSIVE nat_cmp_parts(_, _, _, _)
\* semver._nat_cmp: compare the identifiers pairwise over zip(a, b); when
\* all pairs are equal, compare the lengths of the two prerelease strings
nat_cmp_parts(a, b, i, dflt) ==
    IF i > Len(a) \/ i > Len(b) THEN dflt
    ELSE LET c == cmp_prerelease_tag(a[i], b[i])
         IN  IF c # 0 THEN c ELSE nat_cmp_parts(a, b, i + 1, dflt)

nat_cmp(a, b) == nat_cmp_parts(a, b, 1, cmp(PreStrLen(a), PreStrLen(b)))

\* semver.compare: major, minor, patch in turn, then the prerelease, where
\* a version without prerelease is above one with; build is never read
compare(v1, v2) ==
    IF v1.core[1] # v2.core[1] THEN cmp(v1.core[1], v2.core[1])
    ELSE IF v1.core[2] # v2.core[2] THEN cmp(v1.core[2], v2.core[2])
    ELSE IF v1.core[3] # v2.core[3] THEN cmp(v1.core[3], v2.core[3])
    ELSE LET rccmp == nat_cmp(v1.pre, v2.pre)
         IN  IF rccmp = 0 THEN 0
             ELSE IF v1.pre = <<>> THEN 1
             ELSE IF v2.pre = <<>> THEN -1
             ELSE rccmp

\* Version.__gt__, __lt__, __eq__
VersionGt(a, b) == compare(a, b) > 0

\* variant of VersionLt that also holds for equal versions
VersionLtOrEq(a, b) == compare(a, b) <= 0

VersionLt(a, b) == compare(a, b) < 0
VersionEq(a, b) == compare(a, b) = 0

\* str.startswith on the first identifier of the prerelease
StartsWith(s, prefix) ==
    \/ s = prefix
    \/ prefix = "dev" /\ s = "develop"

\* variant of VersionChannel that takes a prerelease "alpha" or "beta"
\* without a following "." as the channel keyword
VersionChannelLoose(v) ==
    IF v.pre = <<>> THEN "stable"
    ELSE IF ~v.pre[1].num /\ v.pre[1].s = "alpha" THEN "alpha"
    ELSE IF ~v.pre[1].num /\ v.pre[1].s = "beta" THEN "beta"
    ELSE IF ~v.pre[1].num /\ StartsWith(v.pre[1].s, "dev") THEN "dev"
    ELSE IF ~v.pre[1].num /\ StartsWith(v.pre[1].s, "rc") THEN "rc"
    ELSE "ValueError"

\* Version._parse: the channel of a version string
VersionChannel(v) ==
    IF v.pre = <<>> THEN "stable"
    ELSE IF ~v.pre[1].num /\ v.pre[1].s = "alpha" /\ Len(v.pre) > 1 THEN "alpha"
    ELSE IF ~v.pre[1].num /\ v.pre[1].s = "beta" /\ Len(v.pre) > 1 THEN "beta"
    ELSE IF ~v.pre[1].num /\ StartsWith(v.pre[1].s, "dev") THEN "dev"
    ELSE IF ~v.pre[1].num /\ StartsWith(v.pre[1].s, "rc") THEN "rc"
    ELSE "ValueError"

\* Version.re_branch  .*\.(?P<branch>.*)\..*?  matched from the start of the
\* prerelease: the first .* is greedy, so the group is the text between
\* the last two dots, i.e. the identifier before the last one; with fewer
\* than two dots there is no match
re_branch(pre) ==
    IF Len(pre) >= 3
    THEN (IF pre[Len(pre) - 1].num THEN ToString(pre[Len(pre) - 1].n)
          ELSE pre[Len(pre) - 1].s)
    ELSE "AttributeError"

\* Version._parse: the branch of a version string, None outside alpha/beta
VersionBranch(v) ==
    IF VersionChannel(v) \in {"alpha", "beta"} THEN re_branch(v.pre) ELSE None

\* Version.__init__: TRUE when construction raises instead of returning
VersionRaises(v) ==
    \/ VersionChannel(v) = "ValueError"
    \/ VersionBranch(v) = "AttributeError"

(***************************************************************************)
(* Raw version strings.  The string given to Version() is kept as its      *)
(* tokens: numeric and alphanumeric identifiers and the separators ".",    *)
(* "-" and "+" (the identifiers of the model contain no hyphen).           *)
(***************************************************************************)
Dot == Str(".")
Hyphen == Str("-")
Plus == Str("+")

RECURSIVE Join(_)
\* ".".join(ids)
Join(ids) ==
    IF ids = <<>> THEN <<>>
    ELSE IF Len(ids) = 1 THEN ids
    ELSE <<Head(ids), Dot>> \o Join(Tail(ids))

\* the raw string written from a list of core numbers, an optional list of
\* prerelease identifiers after "-" and an optional list of build
\* identifiers after "+"
Raw(core, pre, build) ==
    Join([i \in 1..Len(core) |-> Num(core[i])])
    \o (IF pre = Nothing THEN <<>> ELSE <<Hyphen>> \o Join(pre[1]))
    \o (IF build = Nothing THEN <<>> ELSE <<Plus>> \o Join(build[1]))

\* position of the first token t of s, 0 when there is none
IndexOf(s, t) ==
    IF \E i \in 1..Len(s) : s[i] = t
    THEN CHOOSE i \in 1..Len(s) : s[i] = t /\ \A j \in 1..(i - 1) : s[j] # t
    ELSE 0

\* part is a non-empty list of identifiers separated by "."
DottedIdents(part) ==
    /\ Len(part) % 2 = 1
    /\ \A i \in 1..Len(part) :
          IF i % 2 = 1 THEN part[i] \notin {Dot, Hyphen, Plus} ELSE part[i] = Dot

\* the identifiers of a dotted list
IdentsOf(part) == [i \in 1..((Len(part) + 1) \div 2) |-> part[2 * i - 1]]

\* what semver.parse gives when the string does not match
NoMatchInfo == [ok |-> FALSE, core |-> <<>>, pre |-> <<>>, build |-> <<>>]

\* semver.parse / semver.parse_version_info: the string must be
\* MAJOR.MINOR.PATCH, then optionally "-" and a dotted prerelease, then
\* optionally "+" and a dotted build; ok is FALSE when it is not (semver
\* raises ValueError)
semver_parse(raw) ==
    LET p == IndexOf(raw, Plus)
        main == IF p = 0 THEN raw ELSE SubSeq(raw, 1, p - 1)
        build == IF p = 0 THEN <<>> ELSE SubSeq(raw, p + 1, Len(raw))
        h == IndexOf(main, Hyphen)
        corepart == IF h = 0 THEN main ELSE SubSeq(main, 1, h - 1)
        pre == IF h = 0 THEN <<>> ELSE SubSeq(main, h + 1, Len(main))
    IN  IF /\ Len(corepart) = 5
           /\ DottedIdents(corepart)
           /\ \A i \in {1, 3, 5} : corepart[i].num
           /\ (h # 0 => DottedIdents(pre))
           /\ (p # 0 => DottedIdents(build))
        THEN [ok |-> TRUE,
              core |-> <<corepart[1].n, corepart[3].n, corepart[5].n>>,
              pre |-> IdentsOf(pre), build |-> IdentsOf(build)]
        ELSE NoMatchInfo

\* Version(version_str): the object constructed, or the exception raised
\* (error) by semver.parse, by _parse on an unknown prerelease prefix, or
\* by re_branch.match(...).group on a prerelease the pattern does not match
Version(version_str) ==
    LET info == semver_parse(version_str)
        failed(e) == [error |-> e, version_str |-> version_str,
                      channel |-> None, branch |-> None]
    IN  IF ~info.ok THEN failed("ValueError")
        ELSE IF VersionChannel(info) = "ValueError" THEN failed("ValueError")
        ELSE IF VersionBranch(info) = "AttributeError" THEN failed("AttributeError")
        ELSE [error |-> "none", version_str |-> version_str,
              channel |-> VersionChannel(info), branch |-> VersionBranch(info)]

(***************************************************************************)
(* Releases.  A release of the release source (GHRelease) has a version    *)
(* string and a list of assets, each with a name and a download URL.       *)
(***************************************************************************)
Asset(name, url) == [name |-> name, url |-> url]
Release(v, assets) == [version |-> v, assets |-> assets]

\* str.lower on the asset names of the model
lower(s) ==
    CASE s = "EXAMPLE.ZIP" -> "example.zip"
      [] s = "Example.zip" -> "example.zip"
      [] OTHER -> s

\* Updater.channel_weights
channel_weights ==
    [c \in {"alpha", "beta", "dev", "rc", "stable"} |->
        CASE c = "alpha" -> 0 [] c = "beta" -> 1 [] c = "dev" -> 2
          [] c = "rc" -> 3 [] c = "stable" -> 4]

\* Updater.valid_channels
valid_channels == {"alpha", "beta", "dev", "rc", "stable"}

(***************************************************************************)
(* Python dicts keep insertion order: a dict is a sequence of [k, v]       *)
(* without repeated keys; assigning to a present key keeps its position.   *)
(***************************************************************************)
DictHas(d, k) == \E i \in 1..Len(d) : d[i].k = k

\* variant of DictPut that adds an item even when the key is present
DictPutAppend(d, k, v) == Append(d, [k |-> k, v |-> v])

DictPut(d, k, v) ==
    IF DictHas(d, k)
    THEN [i \in 1..Len(d) |-> IF d[i].k = k THEN [k |-> k, v |-> v] ELSE d[i]]
    ELSE Append(d, [k |-> k, v |-> v])

DictValues(d) == {d[i].v : i \in 1..Len(d)}

(***************************************************************************)
(* The inputs of the model.                                                *)
(***************************************************************************)
\* asset_filename given to the Updater
AssetFilename == "Example.zip"

\* asset lists without, with one and with two assets that match
\* AssetFilename
NoMatch == <<Asset("other.zip", "url0")>>
OneMatch == <<Asset("other.zip", "url0"), Asset("EXAMPLE.ZIP", "url1")>>
TwoMatches == <<Asset("example.zip", "url1"), Asset("EXAMPLE.ZIP", "url2")>>

\* a version string that Version rejects: prerelease "x.1"
BadVersion == VStr(2, <<Str("x"), Num(1)>>, "")

\* the assets of the release of patch p
AssetsOf(p) ==
    CASE p = 2 -> OneMatch
      [] p = 3 -> TwoMatches
      [] OTHER -> NoMatch

\* the releases the release source can list when the stages are called
\* one by one, for an Updater at 0.0.1: one that is not newer and newer
\* ones, without, with one and with two matching assets
DirectReleases ==
    { Release(VStr(p, <<>>, ""), AssetsOf(p)) : p \in 1..MaxPatch }
    \cup { Release(VStr(2, <<>>, ""), NoMatch) }

\* releases whose version strings differ only in build metadata, and one
\* that is newer: 0.0.2, 0.0.2+1, 0.0.3
BuildReleases ==
    { Release(VStr(2, <<>>, b), NoMatch) : b \in {"", "1"} }
    \cup { Release(VStr(3, <<>>, ""), NoMatch) }

\* the releases the release source can list in the pipeline model: the
\* same, and one whose version string Version rejects
PipeReleases == DirectReleases \cup { Release(BadVersion, <<>>) }

\* the prerelease versions of the candidate-selection model:
\* 0.0.2-rc.1, 0.0.3-beta.x.1, 0.0.3-alpha.x.1, 0.0.3-alpha.y.2
Prereleases ==
    { VStr(2, <<Str("rc"), Num(1)>>, ""),
      VStr(3, <<Str("beta"), Str("x"), Num(1)>>, ""),
      VStr(3, <<Str("alpha"), Str("x"), Num(1)>>, ""),
      VStr(3, <<Str("alpha"), Str("y"), Num(2)>>, "") }

\* the releases the release source can list in the candidate-selection model
SelectReleases ==
    { Release(v, <<>>) :
        v \in { VStr(p, <<>>, "") : p \in 2..MaxPatch } \cup Prereleases
               \cup { BadVersion } }

\* the release lists of at most MaxReleases releases drawn from rels
Listings(rels) == UNION { [1..n -> rels] : n \in 0..MaxReleases }

\* the prereleases of the raw version strings that Version accepts:
\* alpha.test.15, alpha.test.16, beta.test.15, dev.13, rc.15 of the tests,
\* and rc.x, alpha.test.x.15
GoodPres ==
    { <<Str("alpha"), Str("test"), Num(15)>>,
      <<Str("alpha"), Str("test"), Num(16)>>,
      <<Str("beta"), Str("test"), Num(15)>>,
      <<Str("dev"), Num(13)>>,
      <<Str("rc"), Num(15)>>,
      <<Str("rc"), Str("x")>>,
      <<Str("alpha"), Str("test"), Str("x"), Num(15)>> }

\* further prereleases: alpha, alpha.1, beta.x, x.1, test, and the empty one
OtherPres ==
    { <<Str("alpha")>>,
      <<Str("alpha"), Num(1)>>,
      <<Str("beta"), Str("x")>>,
      <<Str("x"), Num(1)>>,
      <<Str("test")>>,
      <<>> }

\* the parts of the raw version strings given to Version(): 0.0.0 without
\* and with each prerelease; 0.0.1, 0.0.1-alpha.test.15 and
\* 0.0.1-alpha.test.16; 0.0.0+1, 0.0.0-alpha.test.15+1 and
\* 0.0.1-alpha+test.15; and the wrong strings 0.0, 0.0.0.0, 0+0.0, 0.0.1+
RawParts ==
    { [core |-> <<0, 0, 0>>, pre |-> pre, build |-> Nothing] :
        pre \in {Nothing} \cup {Some(x) : x \in GoodPres \cup OtherPres} }
    \cup { [core |-> <<0, 0, 1>>, pre |-> pre, build |-> Nothing] :
             pre \in { Nothing,
                       Some(<<Str("alpha"), Str("test"), Num(15)>>),
                       Some(<<Str("alpha"), Str("test"), Num(16)>>) } }
    \cup { [core |-> <<0, 0, 0>>, pre |-> Nothing, build |-> Some(<<Num(1)>>)],
           [core |-> <<0, 0, 0>>,
            pre |-> Some(<<Str("alpha"), Str("test"), Num(15)>>),
            build |-> Some(<<Num(1)>>)],
           [core |-> <<0, 0, 1>>, pre |-> Some(<<Str("alpha")>>),
            build |-> Some(<<Str("test"), Num(15)>>)],
           [core |-> <<0, 0>>, pre |-> Nothing, build |-> Nothing],
           [core |-> <<0, 0, 0, 0>>, pre |-> Nothing, build |-> Nothing],
           [core |-> <<0>>, pre |-> Nothing, build |-> Some(<<Num(0), Num(0)>>)],
           [core |-> <<0, 0, 1>>, pre |-> Nothing, build |-> Some(<<>>)] }

\* the raw version strings given to Version()
RawStrings == { Raw(t.core, t.pre, t.build) : t \in RawParts }

\* semver.parse of each raw string, and Version() of each raw string
Parsed == [raw \in RawStrings |-> semver_parse(raw)]
Versions == [raw \in RawStrings |-> Version(raw)]

\* Version.__gt__, __lt__, __eq__ on two Version objects: semver.compare
\* parses the two version strings
Gt(a, b) == VersionGt(Parsed[a.version_str], Parsed[b.version_str])

\* variant of Lt that reads the result of semver.compare the other way
LtReversed(a, b) == VersionGt(Parsed[a.version_str], Parsed[b.version_str])

Lt(a, b) == VersionLt(Parsed[a.version_str], Parsed[b.version_str])
Eq(a, b) == VersionEq(Parsed[a.version_str], Parsed[b.version_str])

\* current_version given to the Updater
CurrentVersions ==
    { VStr(1, <<>>, ""), VStr(2, <<>>, ""),
      VStr(2, <<Str("alpha"), Str("x"), Num(1)>>, "") }

(***************************************************************************)
(* The state of one Updater and of its thread pool.                        *)
(***************************************************************************)
VARIABLES
    current,                 \* Updater._current (a version string)
    channel,                 \* Updater._channel
    pre_update,              \* TRUE when a pre_update_func is registered
    cancel_update_func,      \* TRUE when a cancel_update_func is registered
    auto_update,             \* Updater._auto_update
    available,               \* Updater._available, a dict
    candidates,              \* Updater._candidates, a dict
    latest_remote,           \* Updater._latest_remote, optional version
    latest_candidate,        \* Updater._latest_candidate, optional release
    update_ready_to_install, \* Updater._update_ready_to_install
    queue,                   \* the tasks queued on Updater.pool, oldest first
    worker,                  \* what the pool's only worker thread is doing
    pending,                 \* tasks the worker is about to queue
    last,                    \* the stage that ran last and what it did
    calls,                   \* number of public calls made so far
    steps,                   \* number of stages called one by one so far
    cyc,                     \* what happened in each cycle (history)
    built_by,                \* the cycle whose check built candidates (history)
    versions,                \* the Version objects constructed from raw strings
    attempt,                 \* the last Version() call: its string and its error
    printed,                 \* str() of each Version object constructed
    assigned,                \* the last assignment to Updater.channel: value, error
    data,                    \* AvailableReleases.data of one catalog, a dict
    reply,                   \* the last call on the catalog or on a release
    progress,                \* the Progress singleton: its attributes
    outcome                  \* the last call on the Progress

config == <<current, pre_update, cancel_update_func, auto_update>>
selection == <<candidates, latest_candidate, latest_remote, update_ready_to_install>>
pool == <<queue, worker, pending, calls, cyc>>
made == <<versions, attempt, printed>>
catalog == <<data, reply>>
reporting == <<progress, outcome>>
vars == <<current, channel, pre_update, cancel_update_func, auto_update,
          available, candidates, latest_remote, latest_candidate,
          update_ready_to_install, queue, worker, pending, last, calls, steps,
          cyc, built_by, versions, attempt, printed, assigned, data, reply,
          progress, outcome>>

Cycles == 1..MaxCalls

\* a task queued on the pool, tagged with the cycle (public call) it belongs to
Task(op, c) == [op |-> op, cycle |-> c]

\* the history of a cycle: invocations of the cancel callback and of the
\* pre-update hook, downloads started, whether the hook rejected, whether
\* the install stage handed off, the tasks run and the callbacks fired,
\* what the check of the cycle returned ("none" before it has run) and
\* whether a download of the cycle returned success
NoCycle ==
    [cancels |-> 0, hooks |-> 0, downloads |-> 0, rejected |-> FALSE,
     handoff |-> FALSE, ran |-> <<>>, fired |-> <<>>, found |-> "none",
     downloaded |-> FALSE]

\* number of invocations of the cancel callback at n call sites: each is
\* guarded by "if self._cancel_update_func"
Cancels(n) == IF cancel_update_func THEN n ELSE 0

\* what a stage did: its return value ("exit" when it ended the process
\* instead of returning), whether it raised, how often it invoked the
\* cancel callback, what the pre-update hook returned ("none" when it was
\* not invoked), what each download it started returned, and (for a check)
\* the releases the release source returned
Did(op, c, ret, raised, ncancel, hook, results) ==
    [op |-> op, cycle |-> c, ret |-> ret, raised |-> raised,
     cancels |-> ncancel, hook |-> hook, results |-> results,
     fetched |-> <<>>]

(***************************************************************************)
(* Updater._version_check and Updater._build_candidates_list               *)
(***************************************************************************)
RECURSIVE Ingest(_, _)
\* _version_check, the loop over the releases: each is wrapped in a
\* GithubRelease, whose constructor raises on a version string that
\* Version rejects, and stored under its version string
Ingest(releases, d) ==
    IF releases = <<>> THEN [d |-> d, raised |-> FALSE]
    ELSE IF VersionRaises(Head(releases).version) THEN [d |-> d, raised |-> TRUE]
    ELSE Ingest(Tail(releases), DictPut(d, Head(releases).version, Head(releases)))

\* _build_candidates_list, the channel test of one catalog entry
ChannelSkipped(chan, version) ==
    channel_weights[VersionChannel(version)] < channel_weights[chan]

\* _build_candidates_list, the branch test of one catalog entry
BranchSkipped(cur, version) ==
    VersionBranch(cur) # None /\ ~(VersionBranch(cur) = VersionBranch(version))

\* _build_candidates_list, the update of latest_remote by one entry
NextLatestRemote(lr, version) ==
    IF lr = Nothing \/ VersionLt(lr[1], version) THEN Some(version) ELSE lr

\* variant of IsNewer that also accepts the current version itself
IsNewerOrSame(version, cur) == ~VersionLt(version, cur)

\* _build_candidates_list, the test that makes an entry a candidate
IsNewer(version, cur) == VersionGt(version, cur)

RECURSIVE build_loop(_, _, _, _, _, _)
\* _build_candidates_list, the loop over self._available.items()
build_loop(avail, i, chan, cur, cands, lr) ==
    IF i > Len(avail) THEN [candidates |-> cands, latest_remote |-> lr]
    ELSE LET version == avail[i].k
             release == avail[i].v
         IN  IF ChannelSkipped(chan, version)
             THEN build_loop(avail, i + 1, chan, cur, cands, lr)
             ELSE IF BranchSkipped(cur, version)
             THEN build_loop(avail, i + 1, chan, cur, cands, lr)
             ELSE build_loop(avail, i + 1, chan, cur,
                             IF IsNewer(version, cur)
                             THEN DictPut(cands, version, release) ELSE cands,
                             NextLatestRemote(lr, version))

\* what _build_candidates_list returns for the candidates it built
CheckResult(cands) == IF cands # <<>> THEN "True" ELSE "False"

\* _build_candidates_list: candidates starts empty, latest_remote starts
\* from the value the Updater holds
build_candidates_list(avail, chan, cur, lr) ==
    LET r == build_loop(avail, 1, chan, cur, <<>>, lr)
    IN  [candidates |-> r.candidates, latest_remote |-> r.latest_remote,
         ret |-> CheckResult(r.candidates)]

\* variant of FreshCatalog that keeps the catalog of the earlier check
CatalogKept(avail) == avail

\* _version_check, the catalog with which the check starts
FreshCatalog(avail) == <<>>

\* _version_check run for cycle c as task op, the release source
\* answering releases
version_check(op, c, releases) ==
    LET ing == Ingest(releases, FreshCatalog(available))
        b == build_candidates_list(ing.d, channel, current, latest_remote)
    IN  /\ available' = ing.d
        /\ IF ing.raised
           THEN /\ UNCHANGED <<candidates, latest_remote, built_by>>
                /\ last' = [Did(op, c, "None", TRUE, 0, "none", <<>>)
                              EXCEPT !.fetched = releases]
           ELSE /\ candidates' = b.candidates
                /\ latest_remote' = b.latest_remote
                /\ built_by' = c
                /\ last' = [Did(op, c, b.ret, FALSE, 0, "none", <<>>)
                              EXCEPT !.fetched = releases]
        /\ UNCHANGED <<latest_candidate, update_ready_to_install>>

(***************************************************************************)
(* Updater._process_candidates                                             *)
(***************************************************************************)
\* variant of Selects that selects no candidate
SelectsNone(version, cur) == FALSE

\* _process_candidates, the test that makes a candidate the selected one
Selects(version, cur) == VersionGt(version, cur)

RECURSIVE process_loop(_, _, _, _, _)
\* _process_candidates, the loop over self._candidates.items()
process_loop(cands, i, cur, latest, lc) ==
    IF i > Len(cands) THEN [latest |-> latest, latest_candidate |-> lc]
    ELSE IF Selects(cands[i].k, cur)
         THEN process_loop(cands, i + 1, cur, cands[i].k, Some(cands[i].v))
         ELSE process_loop(cands, i + 1, cur, latest, lc)

\* variant of AfterReject that drops the selected candidate
AfterRejectCleared(lc) == Nothing

\* _process_candidates, the selection state after the hook rejected
AfterReject(lc) == lc

\* variant of RunsHook that runs the hook also without candidates
RunsHookAlways(cands, registered) == registered

\* _process_candidates, the condition under which the pre-update hook is
\* invoked: there are candidates and a hook is registered
RunsHook(cands, registered) == cands # <<>> /\ registered

\* _process_candidates run for cycle c; hook is what the pre-update hook
\* returns if it is called
process_candidates(c, hook) ==
    LET r == process_loop(candidates, 1, current, current, latest_candidate)
        op == "process_candidates"
        called == RunsHook(candidates, pre_update)
        answer == IF ~called THEN "none" ELSE IF hook THEN "true" ELSE "false"
    IN  /\ IF called /\ ~hook
           THEN /\ last' = Did(op, c, "False", FALSE, Cancels(1), answer, <<>>)
                /\ latest_candidate' = AfterReject(latest_candidate)
           ELSE IF candidates # <<>>
           THEN /\ latest_candidate' = r.latest_candidate
                /\ last' = Did(op, c,
                               IF ~VersionEq(r.latest, current)
                               THEN "True" ELSE "False",
                               FALSE, 0, answer, <<>>)
           ELSE /\ last' = Did(op, c, "False", FALSE, Cancels(1), answer, <<>>)
                /\ UNCHANGED latest_candidate
        /\ UNCHANGED <<available, candidates, latest_remote,
                       update_ready_to_install, built_by>>

(***************************************************************************)
(* Updater._download_latest_release and Updater._install_update            *)
(***************************************************************************)
\* _download_latest_release, the test of one asset of the selected release
AssetMatches(asset) == lower(asset.name) = lower(AssetFilename)

\* the assets the loop over latest_candidate.assets downloads, in order
MatchingAssets(release) == SelectSeq(release.assets, AssetMatches)

\* variant of Failures that counts a stage without download as a failure
FailuresOrNoAsset(results) ==
    IF results = <<>> THEN 1 ELSE Cardinality({i \in DOMAIN results : ~results[i]})

\* number of downloads of results that failed
Failures(results) == Cardinality({i \in DOMAIN results : ~results[i]})

\* variant of ReadyAtStart that keeps the flag of the earlier stage
ReadyKept(ready) == ready

\* the ready flag with which the download stage starts when auto_update
ReadyAtStart(ready) == FALSE

\* variant of ReadyAfter that sets the flag whatever the download returned
ReadyAfterAny(ready, ok) == TRUE

\* the ready flag after a download that returned ok
ReadyAfter(ready, ok) == IF ok THEN TRUE ELSE ready

RECURSIVE download_loop(_, _)
\* _download_latest_release, the loop over the matching assets: each is
\* downloaded, the flag is set when the download succeeds
download_loop(results, ready) ==
    IF results = <<>> THEN ready
    ELSE download_loop(Tail(results), ReadyAfter(ready, Head(results)))

\* variant of DownloadEnabled that does not read auto_update
DownloadAlways(auto) == TRUE

\* _download_latest_release, the test that lets the stage go on
DownloadEnabled(auto) == auto

\* _download_latest_release run for cycle c; results[i] is what
\* Downloader.download() returns for the i-th download the stage starts
download_latest_release(c, results) ==
    LET op == "download_latest_release"
    IN  /\ IF ~DownloadEnabled(auto_update)
           THEN /\ results = <<>>
                /\ last' = Did(op, c, "None", FALSE, 0, "none", <<>>)
                /\ UNCHANGED update_ready_to_install
           ELSE IF latest_candidate # Nothing
           THEN /\ Len(results) = Len(MatchingAssets(latest_candidate[1]))
                /\ update_ready_to_install' =
                       download_loop(results, ReadyAtStart(update_ready_to_install))
                /\ last' = Did(op, c, "None", FALSE, Cancels(Failures(results)),
                               "none", results)
           ELSE /\ results = <<>>
                /\ update_ready_to_install' = ReadyAtStart(update_ready_to_install)
                /\ last' = Did(op, c, "None", FALSE, Cancels(1), "none", <<>>)
        /\ UNCHANGED <<available, candidates, latest_remote, latest_candidate,
                       built_by>>

\* variant of HandsOff that does not read the ready flag
HandsOffAlways(ready) == TRUE

\* _install_update, the test that decides the hand-off
HandsOff(ready) == ready

\* _install_update run for cycle c: with the ready flag set it writes the
\* swap scripts, spawns them and ends the process in nice_exit (it does
\* not return); otherwise it invokes the cancel callback
install_update(c) ==
    /\ IF HandsOff(update_ready_to_install)
       THEN last' = Did("install_update", c, "exit", FALSE, 0, "none", <<>>)
       ELSE last' = Did("install_update", c, "None", FALSE, Cancels(1), "none", <<>>)
    /\ UNCHANGED <<available, candidates, latest_remote, latest_candidate,
                   update_ready_to_install, built_by>>

(***************************************************************************)
(* The thread pool (utils.threadpool.ThreadPool, one worker thread): the   *)
(* worker takes the oldest queued task, runs it, then runs the task's      *)
(* callback with the result (or the error callback when the task raised),  *)
(* and only then takes the next task.  Other threads may queue tasks       *)
(* between any two steps of the worker.                                    *)
(***************************************************************************)
\* ThreadPool.queue_task
queue_task(q, t) == Append(q, t)

\* the worker takes the oldest task
Take(op) ==
    /\ worker = "idle"
    /\ queue # <<>>
    /\ Head(queue).op = op

\* the history of cycle c after the stage recorded in did has run
Record(h, did) ==
    [h EXCEPT !.ran = Append(@, did.op),
              !.cancels = @ + did.cancels,
              !.hooks = @ + (IF did.hook # "none" THEN 1 ELSE 0),
              !.rejected = @ \/ did.hook = "false",
              !.downloads = @ + Len(did.results),
              !.handoff = @ \/ did.ret = "exit",
              !.found = IF did.op \in {"version_check", "get_latest_remote"}
                        THEN did.ret ELSE @,
              !.downloaded = @ \/ \E i \in DOMAIN did.results : did.results[i]]

\* the worker has run the task at the head of the queue
Ran ==
    /\ queue' = Tail(queue)
    /\ worker' = IF last'.ret = "exit" THEN "exited" ELSE "callback"
    /\ cyc' = [cyc EXCEPT ![last'.cycle] = Record(@, last')]
    /\ UNCHANGED <<config, channel, calls, steps, pending, made, assigned,
                   catalog, reporting>>

\* variant of StageOps that queues the download before the processing
StageOpsDownloadFirst ==
    <<"download_latest_release", "process_candidates", "install_update">>

\* the three stages queued by _version_check_follow_up and by
\* _install_latest_remote, in the order of the queue_task calls
StageOps == <<"process_candidates", "download_latest_release", "install_update">>

Stages(c) == [i \in 1..3 |-> Task(StageOps[i], c)]

\* variant of version_check_follow_up that queues the stages whatever the
\* check returned
version_check_follow_upAlways(c, new_version_found) == Stages(c)

\* _version_check_follow_up(new_version_found): the tasks it queues
version_check_follow_up(c, new_version_found) ==
    IF new_version_found = "True" THEN Stages(c) ELSE <<>>

RunCheck(op, rels) ==
    /\ Take(op)
    /\ \E releases \in Listings(rels) : version_check(op, Head(queue).cycle, releases)
    /\ Ran

\* the worker runs _version_check queued by version_check
RunVersionCheck == RunCheck("version_check", PipeReleases)

\* the worker runs _get_latest_remote queued by get_latest_remote
RunGetLatestRemote == RunCheck("get_latest_remote", PipeReleases)

\* the worker starts _install_latest_remote queued by install_latest_remote
RunInstallLatestRemote ==
    /\ Take("install_latest_remote")
    /\ last' = Did("install_latest_remote", Head(queue).cycle, "None", FALSE, 0,
                   "none", <<>>)
    /\ queue' = Tail(queue)
    /\ pending' = Stages(Head(queue).cycle)
    /\ worker' = "in_task"
    /\ cyc' = [cyc EXCEPT ![last'.cycle] = Record(@, last')]
    /\ UNCHANGED <<config, channel, calls, steps, available, selection, built_by,
                   made, assigned, catalog, reporting>>

\* the worker runs _process_candidates
RunProcessCandidates ==
    /\ Take("process_candidates")
    /\ \E hook \in BOOLEAN : process_candidates(Head(queue).cycle, hook)
    /\ Ran

\* what the downloads of one download stage can return
DownloadResults == UNION {[1..n -> BOOLEAN] : n \in 0..2}

\* the worker runs _download_latest_release
RunDownloadLatestRelease ==
    /\ Take("download_latest_release")
    /\ \E results \in DownloadResults :
          download_latest_release(Head(queue).cycle, results)
    /\ Ran

\* the worker runs _install_update
RunInstallUpdate ==
    /\ Take("install_update")
    /\ install_update(Head(queue).cycle)
    /\ Ran

\* the callback of the task that just ran has completed
Fired(h, op) == [h EXCEPT !.fired = Append(@, op)]

\* the worker starts the callback of the task it just ran: _err_callback
\* (the cancel callback, for every task of the Updater) when the task
\* raised, _task_callback otherwise (_version_check_follow_up for
\* _version_check)
Callback ==
    /\ worker = "callback"
    /\ LET tasks == IF last.op = "version_check" /\ ~last.raised
                    THEN version_check_follow_up(last.cycle, last.ret) ELSE <<>>
       IN  /\ pending' = tasks
           /\ worker' = IF tasks = <<>> THEN "idle" ELSE "in_callback"
           /\ cyc' = [cyc EXCEPT ![last.cycle] =
                        [IF tasks = <<>> THEN Fired(@, last.op) ELSE @
                         EXCEPT !.cancels = @ + (IF last.raised THEN Cancels(1) ELSE 0)]]
    /\ UNCHANGED <<config, channel, calls, steps, available, selection, queue,
                   last, built_by, made, assigned, catalog, reporting>>

\* the worker, inside _install_latest_remote or _version_check_follow_up,
\* makes its next queue_task call
QueueStage ==
    /\ worker \in {"in_task", "in_callback"}
    /\ queue' = queue_task(queue, Head(pending))
    /\ pending' = Tail(pending)
    /\ worker' = IF Tail(pending) # <<>> THEN worker
                 ELSE IF worker = "in_task" THEN "callback" ELSE "idle"
    /\ cyc' = IF Tail(pending) = <<>> /\ worker = "in_callback"
              THEN [cyc EXCEPT ![last.cycle] = Fired(@, last.op)] ELSE cyc
    /\ UNCHANGED <<config, channel, calls, steps, available, selection, last,
                   built_by, made, assigned, catalog, reporting>>

(***************************************************************************)
(* The public calls, made by the thread that owns the Updater.             *)
(***************************************************************************)
Call(op) ==
    /\ worker # "exited"
    /\ calls < MaxCalls
    /\ calls' = calls + 1
    /\ queue' = queue_task(queue, Task(op, calls + 1))
    /\ UNCHANGED <<config, channel, available, selection, worker, pending,
                   last, steps, cyc, built_by, made, assigned, catalog, reporting>>

\* Updater.version_check
CallVersionCheck == Call("version_check")

\* Updater.get_latest_remote
CallGetLatestRemote == Call("get_latest_remote")

\* Updater.install_latest_remote
CallInstallLatestRemote == Call("install_latest_remote")

\* values that are no channel name: wrong case, unknown words, and values
\* that are not strings (written with their type)
WrongChannels ==
    {"Alpha", "_beta", "STABLE", "random", "1 (int)", "True (bool)",
     "None (NoneType)", "3.0 (float)"}

\* variant of ChannelAccepted that ignores the case of the name
ChannelAcceptedAnyCase(value) == value \in valid_channels \cup {"Alpha", "STABLE"}

\* the test of the channel setter: value in self.valid_channels
ChannelAccepted(value) == value \in valid_channels

\* Updater.channel = value: the setter raises ValueError and assigns
\* nothing when the value is not accepted
AssignChannel(value) ==
    /\ worker # "exited"
    /\ IF ~ChannelAccepted(value)
       THEN /\ assigned' = [value |-> value, error |-> "ValueError"]
            /\ UNCHANGED channel
       ELSE /\ channel' = value
            /\ assigned' = [value |-> value, error |-> "none"]
    /\ UNCHANGED <<config, available, selection, pool, last, steps, built_by,
                   made, catalog, reporting>>

\* Updater.channel = value, for a valid channel name
SetChannel == \E value \in valid_channels : AssignChannel(value)

\* Updater.channel = value, for any value
SetAnyChannel == \E value \in valid_channels \cup WrongChannels : AssignChannel(value)

(***************************************************************************)
(* The stages called one by one (as the tests of the Updater do), in any   *)
(* order, without the pool.                                                *)
(***************************************************************************)
Direct ==
    /\ worker # "exited"
    /\ steps < MaxSteps
    /\ steps' = steps + 1
    /\ worker' = IF last'.ret = "exit" THEN "exited" ELSE worker
    /\ UNCHANGED <<config, channel, queue, pending, calls, cyc, made, assigned,
                   catalog, reporting>>

DirectVersionCheck ==
    /\ \E releases \in Listings(DirectReleases) : version_check("version_check", 0, releases)
    /\ Direct

\* _version_check called on a release source whose version strings carry
\* build metadata
BuildVersionCheck ==
    /\ \E releases \in Listings(BuildReleases) : version_check("version_check", 0, releases)
    /\ Direct

DirectProcessCandidates ==
    /\ \E hook \in BOOLEAN : process_candidates(0, hook)
    /\ Direct

DirectDownloadLatestRelease ==
    /\ \E results \in DownloadResults : download_latest_release(0, results)
    /\ Direct

DirectInstallUpdate ==
    /\ install_update(0)
    /\ Direct

(***************************************************************************)
(* Version objects constructed from raw strings, as the tests of Version   *)
(* do, and kept for comparison.                                            *)
(***************************************************************************)
NoAttempt == [version_str |-> <<>>, error |-> "none"]

\* variant of VersionStr that writes the string again from the parsed
\* MAJOR.MINOR.PATCH and prerelease, without the build metadata
VersionStrNoBuild(v) ==
    LET info == Parsed[v.version_str]
    IN  Raw(info.core, IF info.pre = <<>> THEN Nothing ELSE Some(info.pre), Nothing)

\* Version.__str__: the string the Version was constructed from
VersionStr(v) == v.version_str

\* Version(version_str) for a raw string, then str() of the object: the
\* object and its str() are kept when the constructor returns, the
\* exception when it raises
NewVersion ==
    /\ Len(versions) < MaxVersions
    /\ \E version_str \in RawStrings :
          LET v == Versions[version_str]
          IN  /\ attempt' = [version_str |-> version_str, error |-> v.error]
              /\ versions' = IF v.error = "none" THEN Append(versions, v)
                             ELSE versions
              /\ printed' = IF v.error = "none" THEN Append(printed, VersionStr(v))
                            ELSE printed
    /\ UNCHANGED <<config, channel, available, selection, pool, last, steps,
                   built_by, assigned, catalog, reporting>>

(***************************************************************************)
(* One catalog of releases (AvailableReleases) and the calls made on it    *)
(* and on its releases.  A call leaves in reply what it returned: the      *)
(* type of the value (kind) and the value in a list, or the exception.     *)
(***************************************************************************)
\* a release of the release source: its version string and its assets
GHRelease(version, assets) == [version |-> version, assets |-> assets]

\* GithubRelease.__init__: the release with the Version of its string
GithubRelease(gh_release) ==
    [version |-> Versions[gh_release.version], assets |-> gh_release.assets]

NoReply ==
    [op |-> "none", args |-> <<>>, error |-> "none", kind |-> "NoneType",
     value |-> <<>>]

Returned(op, args, kind, value) ==
    [op |-> op, args |-> args, error |-> "none", kind |-> kind, value |-> value]

Raised(op, args, error) ==
    [op |-> op, args |-> args, error |-> error, kind |-> "raise", value |-> <<>>]

\* variant of AssetNamed that compares the names as they are written
AssetNamedExactly(asset, filename) == asset.name = filename

\* the test of get_asset_download_url: asset.name.lower() == filename.lower()
AssetNamed(asset, filename) == lower(asset.name) = lower(filename)

\* GithubRelease.get_asset_download_url: the URL of the first asset of the
\* name, None when there is none
get_asset_download_url(release, filename) ==
    LET hits == {i \in 1..Len(release.assets) : AssetNamed(release.assets[i], filename)}
        first == CHOOSE i \in hits : \A j \in hits : i <= j
        args == <<release, filename>>
    IN  IF hits = {} THEN Returned("get_asset_download_url", args, "NoneType", <<>>)
        ELSE Returned("get_asset_download_url", args, "str",
                      <<release.assets[first].url>>)

\* variant of add that keeps the entry a version string already has
addKeepsFirst(d, release) ==
    IF DictHas(d, release.version.version_str) THEN d
    ELSE DictPut(d, release.version.version_str, release)

\* AvailableReleases.add: self.data[release.version.version_str] = release
add(d, release) == DictPut(d, release.version.version_str, release)

RECURSIVE channel_loop(_, _, _, _)
\* the loop of filter_by_channel over self.items(), from entry i on
channel_loop(d, i, min_weight, ret) ==
    IF i > Len(d) THEN ret
    ELSE LET release_version == Versions[d[i].k]
             release_weight == channel_weights[release_version.channel]
         IN  channel_loop(d, i + 1, min_weight,
                          IF release_weight < min_weight THEN ret
                          ELSE add(ret, d[i].v))

\* AvailableReleases.filter_by_channel
filter_by_channel(d, chan) ==
    IF chan \notin valid_channels
    THEN Raised("filter_by_channel", <<chan>>, "ValueError")
    ELSE IF Len(d) = 0
    THEN Returned("filter_by_channel", <<chan>>, "bool", <<>>)
    ELSE Returned("filter_by_channel", <<chan>>, "AvailableReleases",
                  channel_loop(d, 1, channel_weights[chan], <<>>))

\* variant of BranchDiffers that lets every release pass when the caller
\* has no branch
BranchDiffersWhenGiven(branch, release) ==
    branch # None /\ release.version.branch # None
                  /\ branch # release.version.branch

\* the test of filter_by_branch:
\* release.branch and not branch == release.branch
BranchDiffers(branch, release) ==
    release.version.branch # None /\ branch # release.version.branch

RECURSIVE branch_loop(_, _, _, _)
\* the loop of filter_by_branch over channel_filtered.values()
branch_loop(d, i, branch, ret) ==
    IF i > Len(d) THEN ret
    ELSE branch_loop(d, i + 1, branch,
                     IF BranchDiffers(branch, d[i].v) THEN ret
                     ELSE add(ret, d[i].v))

\* the branch argument of filter_by_branch: a string or None (kind "str",
\* s the list of that one text) or a Version (kind "Version", s its
\* string), which stands for its branch
BranchOf(arg) == IF arg.kind = "Version" THEN Versions[arg.s].branch ELSE arg.s[1]

\* AvailableReleases.filter_by_branch
filter_by_branch(d, chan, arg) ==
    LET channel_filtered == filter_by_channel(d, chan)
        args == <<chan, arg>>
    IN  IF channel_filtered.error # "none"
        THEN Raised("filter_by_branch", args, channel_filtered.error)
        ELSE IF channel_filtered.value = <<>>
        THEN Returned("filter_by_branch", args, channel_filtered.kind, <<>>)
        ELSE Returned("filter_by_branch", args, "AvailableReleases",
                      branch_loop(channel_filtered.value, 1, BranchOf(arg), <<>>))

RECURSIVE latest_loop(_, _, _)
\* the loop of get_latest_release over self.values()
latest_loop(d, i, latest) ==
    IF i > Len(d) THEN latest
    ELSE latest_loop(d, i + 1,
                     IF Gt(d[i].v.version, latest) THEN d[i].v.version ELSE latest)

\* AvailableReleases.get_latest_release: None on an empty catalog, else
\* self.data[latest.version_str], which raises KeyError when the catalog
\* has no such key
get_latest_release(d) ==
    IF Len(d) = 0 THEN Returned("get_latest_release", <<>>, "NoneType", <<>>)
    ELSE LET latest == latest_loop(d, 1, Versions[Raw(<<0, 0, 0>>, Nothing, Nothing)])
         IN  IF DictHas(d, latest.version_str)
             THEN Returned("get_latest_release", <<>>, "GithubRelease",
                           <<d[CHOOSE i \in 1..Len(d) : d[i].k = latest.version_str].v>>)
             ELSE Raised("get_latest_release", <<>>, "KeyError")

\* the version strings of the releases of the catalog: 0.0.0, 0.0.0+1,
\* 0.0.0-alpha.test.15, 0.0.0-alpha.test.x.15, 0.0.0-beta.test.15,
\* 0.0.0-dev.13, 0.0.0-rc.15 and 0.0.1
CatalogVersions ==
    { Raw(<<0, 0, 0>>, Nothing, Nothing),
      Raw(<<0, 0, 0>>, Nothing, Some(<<Num(1)>>)),
      Raw(<<0, 0, 0>>, Some(<<Str("alpha"), Str("test"), Num(15)>>), Nothing),
      Raw(<<0, 0, 0>>, Some(<<Str("alpha"), Str("test"), Str("x"), Num(15)>>), Nothing),
      Raw(<<0, 0, 0>>, Some(<<Str("beta"), Str("test"), Num(15)>>), Nothing),
      Raw(<<0, 0, 0>>, Some(<<Str("dev"), Num(13)>>), Nothing),
      Raw(<<0, 0, 0>>, Some(<<Str("rc"), Num(15)>>), Nothing),
      Raw(<<0, 0, 1>>, Nothing, Nothing) }

\* the releases: one of each version without a matching asset, and two
\* more of 0.0.1 with one and with two assets that match AssetFilename
CatalogReleases ==
    { GithubRelease(GHRelease(v, NoMatch)) : v \in CatalogVersions }
    \cup { GithubRelease(GHRelease(Raw(<<0, 0, 1>>, Nothing, Nothing), a)) :
              a \in {OneMatch, TwoMatches} }

\* the file names asked for
Filenames == {"Example.zip", "example.zip", "some_asset"}

\* the channel arguments: the five names and one that is no channel name
ChannelArgs == valid_channels \cup {"Alpha"}

\* the branch arguments: None, "test", "x", and the Version
\* 0.0.0-alpha.test.15
BranchArgs ==
    { [kind |-> "str", s |-> <<b>>] : b \in {None, "test", "x"} }
    \cup { [kind |-> "Version",
             s |-> Raw(<<0, 0, 0>>, Some(<<Str("alpha"), Str("test"), Num(15)>>), Nothing)] }

\* a call that leaves the catalog as it is
Asks(answer) ==
    /\ reply' = answer
    /\ UNCHANGED <<data, config, channel, available, selection, pool, last,
                   steps, built_by, made, assigned, reporting>>

\* catalog.add(release)
Add ==
    /\ \E release \in CatalogReleases :
          /\ Len(add(data, release)) <= MaxEntries
          /\ data' = add(data, release)
          /\ reply' = Returned("add", <<release>>, "NoneType", <<>>)
    /\ UNCHANGED <<config, channel, available, selection, pool, last, steps,
                   built_by, made, assigned, reporting>>

\* catalog[key] = release for a release of 0.0.1: __setitem__ raises
\* NotImplementedError
SetItem ==
    \E release \in CatalogReleases :
        /\ release.version.version_str = Raw(<<0, 0, 1>>, Nothing, Nothing)
        /\ Asks(Raised("__setitem__", <<release.version.version_str, release>>,
                       "NotImplementedError"))

\* catalog.filter_by_channel(channel)
FilterByChannel == \E chan \in ChannelArgs : Asks(filter_by_channel(data, chan))

\* catalog.filter_by_branch(channel, branch)
FilterByBranch ==
    \E chan \in ChannelArgs, arg \in BranchArgs : Asks(filter_by_branch(data, chan, arg))

\* catalog.get_latest_release()
GetLatestRelease == Asks(get_latest_release(data))

\* release.get_asset_download_url(filename) on a release of 0.0.1
GetAssetDownloadUrl ==
    \E release \in CatalogReleases, filename \in Filenames :
        /\ release.version.version_str = Raw(<<0, 0, 1>>, Nothing, Nothing)
        /\ Asks(get_asset_download_url(release, filename))

(***************************************************************************)
(* The Progress singleton and its adapters.  An adapter is an object (id)  *)
(* with a name; a call leaves in outcome its arguments, the exception it   *)
(* raised, what it returned and the calls it made on adapters, in order.   *)
(***************************************************************************)
Adapter(id, name) == [id |-> id, name |-> name]

\* the adapters of the model: two of the name test_progress_adapter and one
\* of the name other_adapter
Adapters ==
    { Adapter(1, "test_progress_adapter"), Adapter(2, "other_adapter"),
      Adapter(3, "test_progress_adapter") }

\* the lists of adapters given to Progress()
AdapterLists == UNION { [1..n -> Adapters] : n \in 0..MaxAdapters }

\* the default of the length argument of start, and of Progress._length
DefaultLength == 100

\* the lengths, start indexes and values given to the Progress
Lengths == {0, 2, DefaultLength}
Indexes == 0..MaxValue
Values == 0..MaxValue \cup {DefaultLength, DefaultLength + 1}

\* Progress.__init__
Progress(adapters) ==
    [adapters |-> adapters, title |-> None, label |-> None, value |-> 0,
     length |-> DefaultLength, is_started |-> FALSE]

\* what a method of Progress did: the Progress after it, the exception it
\* raised, what it returned and the calls it made on adapters
Result(p, error, ret, called) ==
    [progress |-> p, error |-> error, ret |-> ret, called |-> called]

\* the calls of a method on every adapter of the list, in order
CallAll(adapters, method) ==
    [i \in 1..Len(adapters) |-> [id |-> adapters[i].id, method |-> method]]

\* a TypedProperty setter: the decorated function runs first and the value
\* it returns is stored; nothing is stored when it raises
TypedProperty(name, checked) ==
    IF checked.error # "none" THEN checked
    ELSE [checked EXCEPT !.progress = [@ EXCEPT ![name] = checked.ret]]

\* Progress.has_adapter, for a name
has_adapter(p, name) == \E i \in 1..Len(p.adapters) : p.adapters[i].name = name

\* Progress.register_adapter
register_adapter(p, adapter) ==
    IF has_adapter(p, adapter.name) THEN Result(p, "RuntimeError", None, <<>>)
    ELSE Result([p EXCEPT !.adapters = Append(@, adapter)], "none", None, <<>>)

\* Progress.unregister_adapter, for a name: the first adapter of the name
\* is removed and True returned; None when there is none
unregister_adapter(p, name) ==
    IF has_adapter(p, name)
    THEN LET first == CHOOSE i \in 1..Len(p.adapters) :
                          /\ p.adapters[i].name = name
                          /\ \A j \in 1..(i - 1) : p.adapters[j].name # name
         IN  Result([p EXCEPT !.adapters =
                        SubSeq(@, 1, first - 1) \o SubSeq(@, first + 1, Len(@))],
                    "none", "True", <<>>)
    ELSE Result(p, "none", None, <<>>)

\* Progress.done
done(p) ==
    Result([p EXCEPT !.is_started = FALSE], "none", None, CallAll(p.adapters, "done"))

\* variant of Reached that takes the default length for the length
ReachedDefault(value, length) == value = DefaultLength

\* the test of the value setter: value == self.length
Reached(value, length) == value = length

\* Progress.value = value
set_value(p, value) ==
    TypedProperty("value",
        IF value > p.length THEN Result(p, "ValueError", None, <<>>)
        ELSE IF Reached(value, p.length)
        THEN [done(p) EXCEPT !.ret = value]
        ELSE Result(p, "none", value, <<>>))

\* Progress.length = value
set_length(p, value) ==
    TypedProperty("length",
        IF value <= 0 THEN Result(p, "ValueError", None, <<>>)
        ELSE Result(p, "none", value, <<>>))

\* Progress.start
start(p, title, length, label, start_index) ==
    IF p.is_started THEN Result(p, "RuntimeError", None, <<>>)
    ELSE LET started == CallAll(p.adapters, "start")
             sized == set_length(p, length)
             named == [sized.progress EXCEPT !.title = title, !.label = label]
             valued == set_value(named, start_index)
         IN  IF sized.error # "none"
             THEN Result(sized.progress, sized.error, None, started)
             ELSE IF valued.error # "none"
             THEN Result(valued.progress, valued.error, None, started)
             ELSE Result([valued.progress EXCEPT !.is_started = TRUE], "none",
                         None, started \o valued.called)

NoOutcome ==
    [op |-> "none", args |-> <<>>, error |-> "none", ret |-> None, called |-> <<>>]

\* a call on the Progress
Does(op, args, result) ==
    /\ progress' = result.progress
    /\ outcome' = [op |-> op, args |-> args, error |-> result.error,
                   ret |-> result.ret, called |-> result.called]
    /\ UNCHANGED <<config, channel, available, selection, pool, last, steps,
                   built_by, made, assigned, catalog>>

\* Progress().start(title, length, label, start_index), with the defaults
\* of length and start_index among the arguments
Start ==
    \E length \in Lengths, start_index \in Indexes :
        Does("start", <<"title", length, "", start_index>>,
             start(progress, "title", length, "", start_index))

\* Progress().done()
Done == Does("done", <<>>, done(progress))

\* Progress().value = value
SetValue == \E value \in Values : Does("value", <<value>>, set_value(progress, value))

\* Progress().length = value
SetLength == \E value \in Lengths : Does("length", <<value>>, set_length(progress, value))

\* Progress().register_adapter(adapter)
RegisterAdapter ==
    \E adapter \in Adapters :
        Does("register_adapter", <<adapter>>, register_adapter(progress, adapter))

\* Progress().unregister_adapter(adapter), for an adapter, which stands for
\* its name
UnregisterAdapter ==
    \E adapter \in Adapters :
        Does("unregister_adapter", <<adapter>>,
             unregister_adapter(progress, adapter.name))

\* Progress().has_adapter(adapter), for an adapter, which stands for its
\* name: True or None
HasAdapter ==
    \E adapter \in Adapters :
        Does("has_adapter", <<adapter>>,
             Result(progress, "none",
                    IF has_adapter(progress, adapter.name) THEN "True" ELSE None,
                    <<>>))

(***************************************************************************)
(* Specifications                                                          *)
(***************************************************************************)
\* Updater.__init__
InitUpdater ==
    /\ current \in CurrentVersions
    /\ channel \in valid_channels
    /\ pre_update \in BOOLEAN
    /\ cancel_update_func \in BOOLEAN
    /\ auto_update \in BOOLEAN
    /\ available = <<>>
    /\ candidates = <<>>
    /\ latest_remote = Nothing
    /\ latest_candidate = Nothing
    /\ update_ready_to_install = FALSE
    /\ queue = <<>>
    /\ worker = "idle"
    /\ pending = <<>>
    /\ last = Did("init", 0, "None", FALSE, 0, "none", <<>>)
    /\ calls = 0
    /\ steps = 0
    /\ cyc = [c \in Cycles |-> NoCycle]
    /\ built_by = 0
    /\ versions = <<>>
    /\ attempt = NoAttempt
    /\ printed = <<>>
    /\ assigned = [value |-> channel, error |-> "none"]
    /\ data = <<>>
    /\ reply = NoReply
    /\ progress \in { Progress(adapters) : adapters \in AdapterLists }
    /\ outcome = NoOutcome

\* the update pipeline of an Updater at 0.0.1 on the stable channel, with
\* a Progress without adapters
Init ==
    /\ InitUpdater
    /\ channel = "stable" /\ current = VStr(1, <<>>, "")
    /\ progress = Progress(<<>>)

Next ==
    \/ CallVersionCheck
    \/ CallGetLatestRemote
    \/ CallInstallLatestRemote
    \/ RunVersionCheck
    \/ RunGetLatestRemote
    \/ RunInstallLatestRemote
    \/ RunProcessCandidates
    \/ RunDownloadLatestRelease
    \/ RunInstallUpdate
    \/ Callback
    \/ QueueStage

Spec == Init /\ [][Next]_vars

\* the stages of an Updater at 0.0.1 on the stable channel called one by one
NextDirect ==
    \/ DirectVersionCheck
    \/ DirectProcessCandidates
    \/ DirectDownloadLatestRelease
    \/ DirectInstallUpdate

SpecDirect == Init /\ [][NextDirect]_vars

\* candidate selection: get_latest_remote calls and channel changes on a
\* release source with releases of every channel
SelectGetLatestRemote == RunCheck("get_latest_remote", SelectReleases)

InitSelect ==
    /\ InitUpdater
    /\ progress = Progress(<<>>)
    /\ current # VStr(1, <<>>, "")
    /\ ~pre_update /\ ~cancel_update_func /\ ~auto_update

NextSelect ==
    \/ CallGetLatestRemote
    \/ SetChannel
    \/ SelectGetLatestRemote
    \/ Callback

SpecSelect == InitSelect /\ [][NextSelect]_vars

\* Version objects constructed from raw strings, next to an Updater that
\* is left alone
InitVersion == Init /\ ~pre_update /\ ~cancel_update_func /\ ~auto_update

NextVersion == NewVersion

SpecVersion == InitVersion /\ [][NextVersion]_vars

\* assignments to Updater.channel between the public calls of an Updater
\* whose worker has not started on its queue
NextChannel ==
    \/ SetAnyChannel
    \/ CallVersionCheck
    \/ CallGetLatestRemote
    \/ CallInstallLatestRemote

SpecChannel == InitVersion /\ [][NextChannel]_vars

\* one catalog of releases, next to an Updater that is left alone
NextCatalog ==
    \/ Add
    \/ SetItem
    \/ FilterByChannel
    \/ FilterByBranch
    \/ GetLatestRelease
    \/ GetAssetDownloadUrl

SpecCatalog == InitVersion /\ [][NextCatalog]_vars

\* a Progress constructed with any list of adapters, next to an Updater
\* that is left alone
InitProgress ==
    /\ InitUpdater
    /\ channel = "stable" /\ current = VStr(1, <<>>, "")
    /\ ~pre_update /\ ~cancel_update_func /\ ~auto_update

NextProgress ==
    \/ Start
    \/ Done
    \/ SetValue
    \/ SetLength
    \/ RegisterAdapter
    \/ UnregisterAdapter
    \/ HasAdapter

SpecProgress == InitProgress /\ [][NextProgress]_vars

\* checks and process stages of an Updater at 0.0.1 on the stable channel
\* called one by one, the release source listing version strings with
\* build metadata
NextBuild ==
    \/ BuildVersionCheck
    \/ DirectProcessCandidates

SpecBuild == Init /\ [][NextBuild]_vars

(***************************************************************************)
(* Properties                                                              *)
(***************************************************************************)
\* a stage has run in this step: the worker took a task, or a stage was
\* called directly
StageRan == (worker = "idle" /\ worker' # "idle") \/ steps' # steps

CheckOps == {"version_check", "get_latest_remote"}

\* a check stage has run in this step and returned
CheckCompleted == StageRan /\ last'.op \in CheckOps /\ ~last'.raised

\* the catalog entry with version string v passes the channel-rank filter
\* of channel chan and the branch filter of the current version cur
Passes(v, chan, cur) ==
    /\ channel_weights[VersionChannel(v)] >= channel_weights[chan]
    /\ VersionBranch(cur) # None => VersionBranch(v) = VersionBranch(cur)

Entries(d) == {d[i] : i \in 1..Len(d)}

\* C1: a version check returns true iff candidates is non-empty, and
\* candidates is exactly the set of catalog entries whose channel rank is
\* at least the rank of the requested channel, whose branch equals the
\* current version's branch when the current version has one, and whose
\* version is strictly greater than the current version
C1_CandidatesExact ==
    [][CheckCompleted =>
         /\ Entries(candidates') =
               {e \in Entries(available') :
                  Passes(e.k, channel, current) /\ VersionGt(e.k, current)}
         /\ Len(candidates') = Cardinality(Entries(candidates'))
         /\ (last'.ret = "True") <=> (candidates' # <<>>)]_vars

\* a check has returned true with a catalog of which one entry was left
\* out of candidates, on an Updater whose current version has a branch
C1_Witness ==
    /\ last.op = "get_latest_remote" /\ last.ret = "True"
    /\ VersionBranch(current) # None
    /\ Len(candidates) = 1 /\ Len(available) = 2

\* the versions of the catalog d that pass the filters
Passing(d, chan, cur) == {e.k : e \in {x \in Entries(d) : Passes(x.k, chan, cur)}}

\* lr is the highest-ordered version of the set vs, none when vs is empty
IsHighest(lr, vs) ==
    IF vs = {} THEN lr = Nothing
    ELSE /\ lr # Nothing
         /\ lr[1] \in vs
         /\ \A v \in vs : ~VersionGt(v, lr[1])

\* C2: after every completed version check, latest_remote is the
\* highest-ordered version among the entries of the catalog fetched by
\* that check that pass the channel-rank and branch filters, and is none
\* when no entry passes
C2_LatestRemotePerCheck ==
    [][CheckCompleted =>
         IsHighest(latest_remote', Passing(available', channel, current))]_vars

\* r is the entry of the dict d with the maximum version
IsMaxEntry(r, d) ==
    /\ \E i \in 1..Len(d) : d[i].v = r
    /\ \A i \in 1..Len(d) : ~VersionGt(d[i].k, r.version)

\* the process stage ran last and selected a candidate
Selected ==
    /\ last.op = "process_candidates"
    /\ candidates # <<>>
    /\ last.hook # "false"

\* C3: when ProcessCandidates selects a candidate, latest_candidate is the
\* entry of candidates with the maximum version
C3_SelectsMaximum ==
    Selected => latest_candidate # Nothing /\ IsMaxEntry(latest_candidate[1], candidates)

\* the cycle c failed or was rejected: one of its stages invoked the
\* cancel callback or would have, had one been registered
CancelSites(c) == cyc[c].cancels

\* the install stage of cycle c has returned
Finished(c) ==
    /\ "install_update" \in {cyc[c].ran[i] : i \in 1..Len(cyc[c].ran)}
    /\ ~cyc[c].handoff

\* C4: in every update cycle that fails or is rejected at some stage the
\* cancel callback is invoked exactly once, never more, counting the
\* invocations of all the stages queued for the cycle
C4_CancelExactlyOnce ==
    \A c \in Cycles :
        /\ cyc[c].cancels <= 1
        /\ cancel_update_func /\ Finished(c) => cyc[c].cancels = 1

\* C5: if the pre-update hook returns false in a cycle, no asset download
\* is started and no install hand-off happens in that cycle
C5_RejectHalts ==
    \A c \in Cycles : cyc[c].rejected => cyc[c].downloads = 0 /\ ~cyc[c].handoff

Range(f) == {f[i] : i \in DOMAIN f}

IsPrefix(a, b) == Len(a) <= Len(b) /\ \A i \in 1..Len(a) : a[i] = b[i]

\* the cycle c was started by version_check and its check has run
CheckedCycle(c) == cyc[c].ran # <<>> /\ cyc[c].ran[1] = "version_check"

\* the stages of a cycle started by version_check, in order
CycleOrder ==
    <<"version_check", "process_candidates", "download_latest_release",
      "install_update">>

\* the stages of cycle c ran in order, each after the callback of the one
\* before it had completed
RanInOrder(c) ==
    /\ IsPrefix(cyc[c].ran, CycleOrder)
    /\ IsPrefix(cyc[c].fired, cyc[c].ran)
    /\ Len(cyc[c].ran) <= Len(cyc[c].fired) + 1

C6_WitnessRan ==
    \E c \in Cycles : cyc[c].ran = CycleOrder /\ cyc[c].fired = CycleOrder

\* C7: the process, download and install stages of a cycle started by
\* version_check see the candidates built by the check of their own cycle
C7_CyclesSerialized ==
    /\ last.op \in {"process_candidates", "download_latest_release", "install_update"}
    /\ CheckedCycle(last.cycle)
    => built_by = last.cycle

\* C8: the install stage hands off to process replacement iff the ready
\* flag is set; when the flag is not set it performs no hand-off and
\* invokes the cancel callback (if one is registered) exactly once
C8_InstallIffReady ==
    last.op = "install_update" =>
        /\ (last.ret = "exit") <=> update_ready_to_install
        /\ (worker = "exited") <=> update_ready_to_install
        /\ update_ready_to_install => last.cancels = 0
        /\ ~update_ready_to_install =>
              last.cancels = (IF cancel_update_func THEN 1 ELSE 0)

\* the install stage has handed off
C8_Witness == last.op = "install_update" /\ worker = "exited"

\* the install stage has run without the ready flag, a cancel callback
\* being registered
C8_WitnessNotReady ==
    last.op = "install_update" /\ worker # "exited" /\ last.cancels = 1

\* the download stage ran last, with auto_update enabled, on a selected
\* candidate with the matching asset, and made its one download
OneDownload ==
    /\ last.op = "download_latest_release"
    /\ auto_update
    /\ latest_candidate # Nothing
    /\ Len(last.results) = 1

\* C9: with auto_update enabled and a selected candidate that has the
\* matching asset, a download stage whose download succeeds sets the ready
\* flag and does not invoke the cancel callback; one whose download fails
\* leaves the ready flag false and invokes the cancel callback once
C9_DownloadOutcome ==
    OneDownload =>
        IF last.results[1]
        THEN update_ready_to_install /\ last.cancels = 0
        ELSE /\ ~update_ready_to_install
             /\ last.cancels = (IF cancel_update_func THEN 1 ELSE 0)

\* a download stage has failed its one download and invoked the cancel
\* callback
C9_Witness == OneDownload /\ ~last.results[1] /\ last.cancels = 1

\* a download stage has succeeded
C9_WitnessOk == OneDownload /\ last.results[1]

\* the process stage runs in this step on non-empty candidates and the
\* pre-update hook returns false
Rejects ==
    /\ StageRan
    /\ last'.op = "process_candidates"
    /\ candidates # <<>>
    /\ last'.hook = "false"

\* C10: when candidates is non-empty and the registered pre-update hook
\* returns false, ProcessCandidates returns false, invokes the cancel
\* callback exactly once when one is registered, and leaves candidates,
\* latest_candidate, latest_remote and the ready flag unchanged
C10_RejectKeepsSelection ==
    [][Rejects =>
         /\ last'.ret = "False"
         /\ last'.cancels = (IF cancel_update_func THEN 1 ELSE 0)
         /\ UNCHANGED selection]_vars

\* the hook has rejected on an Updater that holds a selected candidate and
\* a registered cancel callback
C10_Witness ==
    /\ last.op = "process_candidates" /\ last.hook = "false"
    /\ last.cancels = 1
    /\ latest_candidate # Nothing

\* the process stage runs in this step without candidates
NoCandidates ==
    /\ StageRan
    /\ last'.op = "process_candidates"
    /\ candidates = <<>>

\* C11: when candidates is empty, ProcessCandidates returns false, invokes
\* the cancel callback exactly once (when one is registered), does not
\* invoke the pre-update hook, and does not change latest_candidate
C11_EmptyCancels ==
    [][NoCandidates =>
         /\ last'.ret = "False"
         /\ last'.cancels = (IF cancel_update_func THEN 1 ELSE 0)
         /\ last'.hook = "none"
         /\ UNCHANGED latest_candidate]_vars

\* the process stage has run without candidates on an Updater with a
\* registered hook, a registered cancel callback and a candidate selected
\* earlier
C11_Witness ==
    /\ last.op = "process_candidates" /\ candidates = <<>>
    /\ pre_update /\ last.cancels = 1
    /\ latest_candidate # Nothing

\* C12: after a version check that returned true (candidates is not
\* empty), ProcessCandidates with no hook or with an approving hook returns
\* true, invokes the hook once when one is registered, does not invoke the
\* cancel callback, and leaves latest_candidate set to a member of
\* candidates whose version is strictly greater than the current version
C12_ApprovedSelects ==
    Selected =>
        /\ last.ret = "True"
        /\ last.hook = (IF pre_update THEN "true" ELSE "none")
        /\ last.cancels = 0
        /\ latest_candidate # Nothing
        /\ \E i \in 1..Len(candidates) : candidates[i].v = latest_candidate[1]
        /\ VersionGt(latest_candidate[1].version, current)

\* the hook has approved and a candidate was selected among two
C12_Witness ==
    /\ Selected /\ last.hook = "true" /\ last.ret = "True"
    /\ Len(candidates) = 2

\* a candidate is selected and none of its assets has the configured name
NoAsset ==
    /\ latest_candidate # Nothing
    /\ \A i \in 1..Len(latest_candidate[1].assets) :
          lower(latest_candidate[1].assets[i].name) # lower(AssetFilename)

\* C13: when the selected candidate has no asset whose name matches the
\* configured asset filename, the download stage starts no download, leaves
\* the ready flag false and does not invoke the cancel callback; the install
\* stage of the cycle, which runs after it, does not hand off and invokes
\* the cancel callback
C13_NoAssetCancelsAtInstall ==
    NoAsset /\ last.cycle \in Cycles =>
        /\ last.op = "download_latest_release" =>
              /\ last.results = <<>>
              /\ ~update_ready_to_install
              /\ last.cancels = 0
        /\ last.op = "install_update" =>
              /\ "download_latest_release" \in Range(cyc[last.cycle].ran)
              /\ last.ret = "None"
              /\ last.cancels = (IF cancel_update_func THEN 1 ELSE 0)

\* a cycle started by version_check has run its four stages on a selected
\* candidate without matching asset, and only its install stage invoked the
\* cancel callback
C13_Witness ==
    /\ NoAsset /\ auto_update
    /\ last.op = "install_update" /\ last.cancels = 1
    /\ cyc[last.cycle].ran = CycleOrder
    /\ cyc[last.cycle].cancels = 1

\* the download stage runs in this step with auto_update disabled
DownloadDisabled ==
    /\ StageRan
    /\ last'.op = "download_latest_release"
    /\ ~auto_update

\* C14: with auto_update disabled the download stage has no effect: it
\* starts no download, does not set the ready flag and does not invoke the
\* cancel callback
C14_NoAutoNoEffect ==
    [][DownloadDisabled =>
         /\ last'.results = <<>>
         /\ last'.cancels = 0
         /\ ~update_ready_to_install'
         /\ UNCHANGED <<available, selection>>]_vars

\* the download stage has run with auto_update disabled on a selected
\* candidate with a matching asset, a cancel callback being registered
C14_Witness ==
    /\ last.op = "download_latest_release" /\ ~auto_update
    /\ cancel_update_func
    /\ latest_candidate # Nothing /\ ~NoAsset

\* releases of rels with the same version string are the same release
OnePerVersion(rels) ==
    \A i, j \in DOMAIN rels : rels[i].version = rels[j].version => rels[i] = rels[j]

\* C15: after a completed version check the catalog holds exactly the
\* releases the release source returned in that check, each under its
\* version string, and candidates is rebuilt from it; when the source
\* returns no release the catalog is empty and the check reports no update
C15_CatalogFresh ==
    [][CheckCompleted =>
         /\ {available'[i].k : i \in 1..Len(available')} =
               {r.version : r \in Range(last'.fetched)}
         /\ \A i \in 1..Len(available') :
               /\ available'[i].v \in Range(last'.fetched)
               /\ available'[i].v.version = available'[i].k
         /\ OnePerVersion(last'.fetched) =>
               DictValues(available') = Range(last'.fetched)
         /\ Entries(candidates') \subseteq Entries(available')
         /\ last'.fetched = <<>> =>
               available' = <<>> /\ candidates' = <<>> /\ last'.ret = "False"]_vars

\* a check for which the source returned no release has completed on an
\* Updater that had selected a candidate from the catalog of an earlier
\* check
C15_Witness ==
    /\ last.op = "version_check" /\ ~last.raised
    /\ last.fetched = <<>> /\ available = <<>>
    /\ latest_candidate # Nothing

\* C16: within one update cycle each stage runs at most once and the
\* download stage starts at most one asset download
C16_NoRetries ==
    \A c \in Cycles :
        /\ cyc[c].downloads <= 1
        /\ \A i, j \in 1..Len(cyc[c].ran) : cyc[c].ran[i] = cyc[c].ran[j] => i = j

\* the parts a raw string of the model was written from
PartsOf(raw) == CHOOSE t \in RawParts : Raw(t.core, t.pre, t.build) = raw

\* the parts follow the grammar MAJOR.MINOR.PATCH[-PRERELEASE][+BUILD]
Grammatical(t) ==
    /\ Len(t.core) = 3
    /\ t.pre # Nothing => t.pre[1] # <<>>
    /\ t.build # Nothing => t.build[1] # <<>>

\* the prerelease identifiers written in the parts, <<>> without prerelease
PreOf(t) == IF t.pre = Nothing THEN <<>> ELSE t.pre[1]

\* the prerelease starts with the text kw followed by "."
StartsWithKeyword(pre, kw) == Len(pre) >= 2 /\ pre[1] = Str(kw)

\* the prerelease starts with "dev", respectively "rc"
StartsWithDev(pre) == pre # <<>> /\ pre[1] \in {Str("dev"), Str("develop")}
StartsWithRc(pre) == pre # <<>> /\ pre[1] = Str("rc")

\* the last Version() call returned the object v
Constructed(v) ==
    /\ attempt.error = "none"
    /\ versions # <<>>
    /\ v = versions[Len(versions)]

\* the last Version() call was made with a grammatical string and returned
\* an object of channel c, with a branch name or without
Gives(c, with_branch) ==
    \E v \in Range(versions) :
        /\ Constructed(v)
        /\ v.channel = c
        /\ (v.branch # None) <=> with_branch

\* C17: the channel of a Version is derived from the prerelease: none gives
\* stable without branch; one starting with "alpha." or "beta." gives alpha
\* or beta with a branch; one starting with "dev" gives dev without branch;
\* one starting with "rc" gives rc without branch; every other prerelease
\* makes the construction fail
C17_ChannelDerived ==
    attempt # NoAttempt /\ Grammatical(PartsOf(attempt.version_str)) =>
        LET pre == PreOf(PartsOf(attempt.version_str))
        IN  IF pre = <<>> THEN Gives("stable", FALSE)
            ELSE IF StartsWithKeyword(pre, "alpha") THEN Gives("alpha", TRUE)
            ELSE IF StartsWithKeyword(pre, "beta") THEN Gives("beta", TRUE)
            ELSE IF StartsWithDev(pre) THEN Gives("dev", FALSE)
            ELSE IF StartsWithRc(pre) THEN Gives("rc", FALSE)
            ELSE attempt.error # "none"

\* the text of an identifier
Text(id) == IF id.num THEN ToString(id.n) ELSE id.s

\* C18: the branch of every alpha or beta version is the identifier that
\* follows the channel keyword in the prerelease, whatever the number of
\* identifiers of the prerelease
C18_BranchAfterKeyword ==
    \A i \in 1..Len(versions) :
        versions[i].channel \in {"alpha", "beta"} =>
            versions[i].branch = Text(PreOf(PartsOf(versions[i].version_str))[2])

\* the string is not grammatical, or its prerelease starts with none of
\* the channel keywords
Wrong(raw) ==
    \/ ~Grammatical(PartsOf(raw))
    \/ LET pre == PreOf(PartsOf(raw))
       IN  /\ pre # <<>>
           /\ ~StartsWithKeyword(pre, "alpha") /\ ~StartsWithKeyword(pre, "beta")
           /\ ~StartsWithDev(pre) /\ ~StartsWithRc(pre)

\* 0.0, 0.0.0.0, 0+0.0 and 0.0.1-alpha+test.15
wrong_version_string ==
    { Raw(<<0, 0>>, Nothing, Nothing),
      Raw(<<0, 0, 0, 0>>, Nothing, Nothing),
      Raw(<<0>>, Nothing, Some(<<Num(0), Num(0)>>)),
      Raw(<<0, 0, 1>>, Some(<<Str("alpha")>>), Some(<<Str("test"), Num(15)>>)) }

\* C19: Version() on a string that does not conform to the grammar
\* MAJOR.MINOR.PATCH[-PRERELEASE][+BUILD], or whose prerelease matches no
\* channel prefix, raises ValueError and yields no Version; so do 0.0,
\* 0.0.0.0, 0+0.0 and 0.0.1-alpha+test.15
C19_WrongStringFails ==
    [][attempt'.version_str # <<>>
         /\ (Wrong(attempt'.version_str) \/ attempt'.version_str \in wrong_version_string)
         => attempt'.error = "ValueError" /\ UNCHANGED versions]_vars

\* Version("0.0.1-alpha+test.15") has raised ValueError after a Version was
\* constructed
C19_Witness ==
    /\ attempt.version_str =
          Raw(<<0, 0, 1>>, Some(<<Str("alpha")>>), Some(<<Str("test"), Num(15)>>))
    /\ attempt.error = "ValueError"
    /\ versions # <<>>

\* the numbers MAJOR, MINOR, PATCH written in the string of a Version
CoreOf(v) == PartsOf(v.version_str).core

\* C20: the Version ordering is a total order by precedence: of a < b,
\* a == b, a > b exactly one holds, a < b iff b > a, the order is transitive,
\* and a version without prerelease is strictly above every prerelease
\* version with the same MAJOR.MINOR.PATCH
C20_TotalOrder ==
    \A a, b \in Range(versions) :
        /\ Cardinality({r \in {"lt", "eq", "gt"} :
                          \/ r = "lt" /\ Lt(a, b)
                          \/ r = "eq" /\ Eq(a, b)
                          \/ r = "gt" /\ Gt(a, b)}) = 1
        /\ Lt(a, b) <=> Gt(b, a)
        /\ Eq(a, b) <=> Eq(b, a)
        /\ \A c \in Range(versions) :
              /\ Lt(a, b) /\ Lt(b, c) => Lt(a, c)
              /\ Eq(a, b) /\ Eq(b, c) => Eq(a, c)
              /\ Eq(a, b) /\ Lt(b, c) => Lt(a, c)
              /\ Lt(a, b) /\ Eq(b, c) => Lt(a, c)
        /\ a.channel = "stable" /\ b.channel # "stable" /\ CoreOf(a) = CoreOf(b)
              => Gt(a, b) /\ Lt(b, a)

\* three versions in ascending order were constructed: a prerelease, the
\* version without prerelease of the same MAJOR.MINOR.PATCH, and a
\* prerelease of the next patch
C20_Witness ==
    /\ Len(versions) = 3
    /\ Lt(versions[1], versions[2]) /\ Lt(versions[2], versions[3])
    /\ versions[1].channel = "rc" /\ versions[2].channel = "stable"
    /\ versions[3].channel = "alpha"
    /\ versions[1].version_str = Raw(<<0, 0, 0>>, Some(<<Str("rc"), Num(15)>>), Nothing)
    /\ versions[2].version_str = Raw(<<0, 0, 0>>, Nothing, Nothing)

\* the strings of a and b differ in nothing but their build metadata
OnlyBuildDiffers(a, b) ==
    /\ PartsOf(a.version_str).core = PartsOf(b.version_str).core
    /\ PartsOf(a.version_str).pre = PartsOf(b.version_str).pre
    /\ PartsOf(a.version_str).build # PartsOf(b.version_str).build

\* C21: build metadata is kept in the string form but never takes part in
\* comparison: str(Version(s)) is s for every string s that Version()
\* accepts, and two versions that differ only in build metadata are equal,
\* neither less than nor greater than the other
C21_BuildKeptNotCompared ==
    /\ Len(printed) = Len(versions)
    /\ attempt.error = "none" /\ versions # <<>>
          => printed[Len(printed)] = attempt.version_str
    /\ \A a, b \in Range(versions) :
          OnlyBuildDiffers(a, b) => Eq(a, b) /\ ~Lt(a, b) /\ ~Gt(a, b)

\* 0.0.0-alpha.test.15 and then 0.0.0-alpha.test.15+1 were constructed and
\* printed
C21_Witness ==
    /\ Len(versions) = 2
    /\ versions[1].version_str =
          Raw(<<0, 0, 0>>, Some(<<Str("alpha"), Str("test"), Num(15)>>), Nothing)
    /\ attempt.version_str =
          Raw(<<0, 0, 0>>, Some(<<Str("alpha"), Str("test"), Num(15)>>), Some(<<Num(1)>>))
    /\ attempt.error = "none"
    /\ printed[2] = attempt.version_str

\* the five channel names
FiveChannels == {"alpha", "beta", "dev", "rc", "stable"}

\* C23: assigning to Updater.channel a value outside alpha, beta, dev, rc,
\* stable (wrong case, unknown word, not a string) raises ValueError and
\* leaves the channel unchanged, so the channel of the Updater is always
\* one of the five names
C23_ChannelAlwaysValid ==
    /\ [](channel \in FiveChannels)
    /\ [](assigned.value \notin FiveChannels => assigned.error = "ValueError")
    /\ [][assigned'.error = "ValueError" => channel' = channel]_vars

\* "Alpha" was assigned, after the channel was set to rc and a public call
\* was made, and the assignment raised ValueError
C23_Witness ==
    /\ assigned = [value |-> "Alpha", error |-> "ValueError"]
    /\ channel = "rc"
    /\ calls > 0

\* C22: asset lookup on a release is a case-insensitive exact name match:
\* get_asset_download_url(filename) returns the download URL of the first
\* asset whose lower-cased name equals the lower-cased filename, and None
\* when no asset name matches
C22_AssetLookup ==
    reply.op = "get_asset_download_url" =>
        LET assets == reply.args[1].assets
            filename == reply.args[2]
            named == {i \in 1..Len(assets) : lower(assets[i].name) = lower(filename)}
        IN  IF named = {} THEN reply.kind = "NoneType" /\ reply.value = <<>>
            ELSE /\ reply.kind = "str"
                 /\ \E i \in named :
                       /\ \A j \in named : i <= j
                       /\ reply.value = <<assets[i].url>>

\* "Example.zip" was asked of a release whose assets are example.zip and
\* EXAMPLE.ZIP, and the URL of the first was returned
C22_Witness ==
    /\ reply.op = "get_asset_download_url"
    /\ reply.args[1].assets = TwoMatches
    /\ reply.args[2] = "Example.zip"
    /\ reply.value = <<"url1">>

\* C24: add stores the release under its version string and silently
\* overwrites an entry of the same version string (adding the same release
\* twice equals adding it once); item assignment is rejected; so the key
\* of every entry is always the raw string of the entry's own version
C24_AddOverwrites ==
    /\ [](\A i \in 1..Len(data) : data[i].k = data[i].v.version.version_str)
    /\ [][/\ reply'.op = "add" =>
               LET release == reply'.args[1]
                   key == release.version.version_str
               IN  /\ reply'.error = "none"
                   /\ \E i \in 1..Len(data') : data'[i] = [k |-> key, v |-> release]
                   /\ \A i, j \in 1..Len(data') : data'[i].k = data'[j].k => i = j
                   /\ \A e \in Range(data) : e.k # key => e \in Range(data')
                   /\ \A e \in Range(data') : e.k # key => e \in Range(data)
                   /\ [k |-> key, v |-> release] \in Range(data) => data' = data
          /\ reply'.op = "__setitem__" =>
               reply'.error = "NotImplementedError" /\ data' = data]_vars

\* a release of 0.0.1 was added again after a second release was added:
\* the catalog still has two entries and the first is the release added last
C24_Witness ==
    /\ Len(data) = 2
    /\ data[1].k = Raw(<<0, 0, 1>>, Nothing, Nothing)
    /\ data[1].v.assets = OneMatch
    /\ reply.op = "add"
    /\ reply.args[1] = data[1].v

\* the rank of a channel under alpha < beta < dev < rc < stable
ChannelRank(c) ==
    CHOOSE i \in 1..5 : <<"alpha", "beta", "dev", "rc", "stable">>[i] = c

\* the entries of the catalog whose channel has at least the rank of chan
RankedFrom(chan) ==
    {e \in Range(data) : ChannelRank(e.v.version.channel) >= ChannelRank(chan)}

\* C25: filter_by_channel(channel) returns a catalog holding exactly the
\* entries whose channel rank is at least rank(channel) under
\* alpha < beta < dev < rc < stable, for every catalog, the empty one
\* included; a name that is no channel fails with ValueError; the receiver
\* is not modified
C25_FilterByChannel ==
    /\ [](reply.op = "filter_by_channel" =>
            IF reply.args[1] \notin FiveChannels THEN reply.error = "ValueError"
            ELSE /\ reply.kind = "AvailableReleases"
                 /\ Range(reply.value) = RankedFrom(reply.args[1]))
    /\ [][reply'.op = "filter_by_channel" => data' = data]_vars

\* the entry carries a branch
Branched(e) == e.v.version.branch # None

\* C26: filter_by_branch(channel, branch) returns exactly the
\* channel-filtered entries that carry no branch (stable, dev, rc) or carry
\* the branch of the caller; an entry with a branch is excluded whenever
\* the caller's branch differs, also when the caller has no branch
C26_FilterByBranch ==
    reply.op = "filter_by_branch" /\ reply.args[1] \in FiveChannels =>
        LET branch == BranchOf(reply.args[2])
        IN  /\ reply.error = "none"
            /\ Range(reply.value) =
                  {e \in RankedFrom(reply.args[1]) :
                      ~Branched(e) \/ e.v.version.branch = branch}
            /\ \A e \in Range(data) :
                  Branched(e) /\ e.v.version.branch # branch
                      => e \notin Range(reply.value)

\* a catalog of 0.0.0-alpha.test.15 and 0.0.1 was filtered for the alpha
\* channel by a caller without branch: only 0.0.1 was returned
C26_Witness ==
    /\ reply.op = "filter_by_branch"
    /\ reply.args[1] = "alpha"
    /\ reply.args[2] = [kind |-> "str", s |-> <<None>>]
    /\ Len(data) = 2
    /\ data[1].k = Raw(<<0, 0, 0>>, Some(<<Str("alpha"), Str("test"), Num(15)>>), Nothing)
    /\ Len(reply.value) = 1
    /\ reply.value[1].k = Raw(<<0, 0, 1>>, Nothing, Nothing)

\* C27: get_latest_release returns None on an empty catalog and, on every
\* non-empty catalog, the entry with the highest version in the Version
\* ordering, also when all versions are 0.0.0 prereleases or 0.0.0 with
\* build metadata
C27_LatestIsHighest ==
    reply.op = "get_latest_release" =>
        /\ reply.error = "none"
        /\ IF data = <<>> THEN reply.kind = "NoneType"
           ELSE /\ reply.kind = "GithubRelease"
                /\ \E e \in Range(data) :
                      /\ reply.value = <<e.v>>
                      /\ \A o \in Range(data) : ~Gt(o.v.version, e.v.version)

\* the call that was just made assigned to the value of the Progress p the
\* length of p: an assignment to value, or the start index of start
ValueReachedLength(o, p) ==
    /\ o.error = "none"
    /\ \/ o.op = "value" /\ o.args[1] = p.length
       \/ o.op = "start" /\ o.args[4] = p.length

\* C28: Progress cannot be started twice without finishing in between:
\* start on a not-started Progress (with a positive length and a start
\* index that is not above it) sets title, length, label and value and
\* makes is_started true; start while is_started is true raises
\* RuntimeError; after done, and after the value has reached the length,
\* the Progress is not started, so that start succeeds again
C28_NoDoubleStart ==
    [][/\ outcome'.op = "start" /\ progress.is_started =>
            outcome'.error = "RuntimeError" /\ progress' = progress
       /\ outcome'.op = "start" /\ ~progress.is_started
            /\ outcome'.args[2] > 0 /\ outcome'.args[4] <= outcome'.args[2] =>
            /\ outcome'.error = "none"
            /\ progress'.title = outcome'.args[1]
            /\ progress'.length = outcome'.args[2]
            /\ progress'.label = outcome'.args[3]
            /\ progress'.value = outcome'.args[4]
            /\ progress'.is_started
       /\ outcome'.op = "done" => ~progress'.is_started
       /\ ValueReachedLength(outcome', progress') => ~progress'.is_started]_vars

\* the calls of done on every adapter of the list, in order
DoneOnAll(adapters) ==
    [i \in 1..Len(adapters) |-> [id |-> adapters[i].id, method |-> "done"]]

\* C29: on a started Progress, assigning a value below the length keeps
\* is_started true, assigning the length finishes the progress (done is
\* called on every adapter and is_started becomes false), and assigning a
\* value above the length raises ValueError and leaves value and
\* is_started unchanged
C29_ValueAgainstLength ==
    [][outcome'.op = "value" /\ progress.is_started =>
          LET value == outcome'.args[1]
          IN  /\ value < progress.length =>
                    /\ outcome'.error = "none"
                    /\ progress'.is_started
                    /\ progress'.value = value
              /\ value = progress.length =>
                    /\ outcome'.error = "none"
                    /\ ~progress'.is_started
                    /\ outcome'.called = DoneOnAll(progress.adapters)
              /\ value > progress.length =>
                    /\ outcome'.error = "ValueError"
                    /\ progress'.value = progress.value
                    /\ progress'.is_started = progress.is_started]_vars

\* a Progress with two adapters was started with length 2 and then
\* finished by the assignment of 2 to its value
C29_Witness ==
    /\ outcome.op = "value"
    /\ outcome.args = <<2>>
    /\ progress.title = "title"
    /\ progress.length = 2
    /\ progress.value = 2
    /\ ~progress.is_started
    /\ Len(outcome.called) = 2

\* C30: the adapters registered on a Progress always have pairwise
\* distinct names, however the list was built (the constructor argument
\* included): register_adapter of an adapter whose name is registered
\* raises RuntimeError and leaves the list unchanged, and after
\* unregister_adapter(x) has returned True, has_adapter(x) is false
C30_DistinctNames ==
    /\ [](\A i, j \in 1..Len(progress.adapters) :
            progress.adapters[i].name = progress.adapters[j].name => i = j)
    /\ [][/\ outcome'.op = "register_adapter"
               /\ (\E a \in Range(progress.adapters) : a.name = outcome'.args[1].name)
               => outcome'.error = "RuntimeError"
                  /\ progress'.adapters = progress.adapters
          /\ outcome'.op = "unregister_adapter" /\ outcome'.ret = "True"
               => \A a \in Range(progress'.adapters) : a.name # outcome'.args[1].name]_vars

\* the position in rels of the first release whose version string Version
\* rejects
FirstRejected(rels) ==
    CHOOSE k \in 1..Len(rels) :
        /\ VersionRaises(rels[k].version)
        /\ \A j \in 1..(k - 1) : ~VersionRaises(rels[j].version)

\* a check stage has run in this step and failed on a rejected version
\* string after it had ingested at least one release
FailedMidway ==
    /\ StageRan /\ last'.op \in CheckOps /\ last'.raised
    /\ FirstRejected(last'.fetched) > 1

\* C31: the catalog is never partially updated: when the ingestion of a
\* version check fails midway on a release whose version string Version
\* rejects, the check does not leave the catalog holding only the releases
\* ingested before the failure
C31_NeverPartial ==
    [][FailedMidway =>
         ~(/\ available' # available
           /\ DictValues(available') =
                 {last'.fetched[j] : j \in 1..(FirstRejected(last'.fetched) - 1)})]_vars

\* the tasks of cycle c that are queued or about to be queued
Queued(c) == {t \in Range(queue) \cup Range(pending) : t.cycle = c}

\* the check of cycle c, started by version_check, has returned that there
\* is no update
NoUpdate(c) ==
    /\ cyc[c].ran # <<>>
    /\ cyc[c].ran[1] = "version_check"
    /\ cyc[c].found = "False"

\* C32: when the check of a cycle started by version_check reports no
\* update the cycle ends there: no process, download or install stage of
\* the cycle is queued or run, and neither the pre-update hook, the
\* post-check hook (the callback of the process stage) nor the cancel
\* callback is invoked in the cycle
C32_NoUpdateEndsCycle ==
    \A c \in Cycles :
        NoUpdate(c) =>
            /\ Queued(c) = {}
            /\ cyc[c].ran = <<"version_check">>
            /\ cyc[c].hooks = 0
            /\ cyc[c].cancels = 0
            /\ "process_candidates" \notin Range(cyc[c].fired)

\* the check of the first cycle has reported no update and its callback
\* has completed, on an Updater with a pre-update hook and a cancel
\* callback, and the worker has gone on to the second cycle
C32_Witness ==
    /\ NoUpdate(1)
    /\ cyc[1].fired = <<"version_check">>
    /\ pre_update /\ cancel_update_func
    /\ cyc[2].ran # <<>>

\* no two distinct entries of the dict d have versions that compare equal
NoTies(d) ==
    \A i, j \in 1..Len(d) : i # j => ~VersionEq(d[i].k, d[j].k)

\* C33 as stated: no two distinct entries of the catalog, and hence of
\* candidates, have versions that compare equal, for every release list,
\* including version strings that differ only in build metadata
C33_NoTies == NoTies(available) /\ NoTies(candidates)

\* the version strings a and b differ at most in their build metadata
SameButBuild(a, b) == a.core = b.core /\ a.pre = b.pre

\* two distinct entries of the dict d have different version strings, and
\* their versions compare equal only when the strings differ in nothing
\* but build metadata
TiesOnlyByBuild(d) ==
    \A i, j \in 1..Len(d) :
        i # j => /\ d[i].k # d[j].k
                 /\ VersionEq(d[i].k, d[j].k) => SameButBuild(d[i].k, d[j].k)

\* C33 amended: no two distinct entries of the catalog, and hence of
\* candidates, have the same version string, and two entries compare equal
\* only when their version strings differ in build metadata alone
C33_TiesOnlyByBuild == TiesOnlyByBuild(available) /\ TiesOnlyByBuild(candidates)

\* the process stage has selected a candidate out of two candidates whose
\* versions compare equal
C33_Witness ==
    /\ last.op = "process_candidates" /\ latest_candidate # Nothing
    /\ Len(candidates) = 2
    /\ VersionEq(candidates[1].k, candidates[2].k)

\* a download stage has run in this step
DownloadRan == StageRan /\ last'.op = "download_latest_release"

\* C34: in every reachable state the ready flag is true only if
\* auto_update is enabled and the most recent download stage downloaded a
\* matching asset successfully (the flag changes only in a download stage,
\* which leaves it true exactly when auto_update is enabled and one of its
\* downloads returned success); consequently the install stage hands off
\* only in a cycle whose download stage succeeded
C34_ReadyOnlyAfterDownload ==
    /\ [](update_ready_to_install => auto_update)
    /\ [][IF DownloadRan
          THEN update_ready_to_install' <=>
                  /\ auto_update
                  /\ \E i \in DOMAIN last'.results : last'.results[i]
          ELSE update_ready_to_install' = update_ready_to_install]_vars
    /\ [](\A c \in Cycles : cyc[c].handoff => cyc[c].downloaded)

\* the install stage of the second cycle has handed off after the download
\* stage of the first cycle had started a download that failed
C34_Witness ==
    /\ cyc[1].downloads > 0 /\ ~cyc[1].downloaded
    /\ cyc[2].handoff
    /\ update_ready_to_install

\* C35: after any sequence of version checks and process-candidates
\* stages, latest_candidate is either none or an entry of the current
\* candidates, so that the download stage never acts on a release that
\* was selected in an earlier cycle and is absent from the candidates of
\* the current one
C35_SelectedIsCandidate ==
    latest_candidate = Nothing \/ latest_candidate[1] \in DictValues(candidates)

\* C36: in every reachable state of Progress, after any sequence of start,
\* value assignments, length assignments and done, the value does not
\* exceed the length and the length is a positive integer
C36_ValueWithinLength ==
    /\ progress.value <= progress.length
    /\ progress.length > 0

\* C37: a Progress.start call that raises, because the progress is already
\* running or because a setter rejects one of its arguments, has no
\* effect: title, label, length, value and is_started are unchanged and no
\* adapter has received start
C37_FailedStartNoEffect ==
    [][outcome'.op = "start" /\ outcome'.error # "none" =>
         /\ progress'.title = progress.title
         /\ progress'.label = progress.label
         /\ progress'.length = progress.length
         /\ progress'.value = progress.value
         /\ progress'.is_started = progress.is_started
         /\ \A i \in 1..Len(outcome'.called) : outcome'.called[i].method # "start"]_vars

\* C38: the version ordering is consistent with the channel rank
\* alpha < beta < dev < rc < stable: of two valid versions with the same
\* major.minor.patch, the one of the lower channel rank is the lower
\* version, and the one of the more mature channel is never ordered below
\* the other
C38_OrderFollowsRank ==
    \A a, b \in Range(versions) :
        CoreOf(a) = CoreOf(b) /\ ChannelRank(a.channel) < ChannelRank(b.channel)
            => /\ Lt(a, b) /\ Gt(b, a)
               /\ ~Lt(b, a) /\ ~Eq(a, b)

\* versions of three channels below stable and of one major.minor.patch
\* were constructed, in an order that is not their rank order
C38_Witness ==
    /\ Len(versions) = 3
    /\ CoreOf(versions[1]) = CoreOf(versions[2])
    /\ CoreOf(versions[2]) = CoreOf(versions[3])
    /\ versions[1].channel = "rc"
    /\ versions[2].channel = "beta"
    /\ versions[3].channel = "dev"

====
